---- MODULE Spec2Model ----
(***************************************************************************)
(* A model of rrobot's simulation engine, src/src/rrobot/game.py (class    *)
(* Game).  Coordinates are points of the integer grid and headings are     *)
(* whole quarter turns (0, pi/2, pi, 3pi/2), for which cos and sin are     *)
(* exact; everything else follows the code statement by statement.         *)
(*                                                                         *)
(* rrobot.maths (seg_intersect, is_in_angle, get_inverse_square) and       *)
(* rrobot.settings are imported by game.py but are not part of the source  *)
(* tree at hand: they are modelled from spec.md (4.1 and 6).               *)
(***************************************************************************)
EXTENDS Integers, Sequences, FiniteSets, TLC

\* ------------------------------------------------------------------ bounds
\* The largest number of robot classes handed to Game.__init__.
MaxRobots == 3
\* The longest time (in clock ticks) between two readings of loop.time().
MaxElapsed == 1
\* The largest number of robots of the games checked for termination.
MaxFairRobots == 2
\* The largest number of robots of a game taken up right before a move.
MaxMovers == 2
\* ... of a game taken up right before a move with no robot on a border.
MaxCrossers == 2
\* The largest number of robots of a game taken up in a radar_updated handler.
MaxAttackers == 3
\* The deepest call stack from which an attacked handler still calls attack.
MaxStack == 5

\* ---------------------------------------------------------------- settings
\* settings['battlefield_size'] = (x_max, y_max)
x_max == 3
y_max == 3
\* settings['max_speed']
max_speed == 2
\* settings['attack_damage']
attack_damage == 70
\* settings['attack_angle'], as the tangent of half of it: 1/3.
attack_tan_num == 1
attack_tan_den == 3
\* settings['max_turns']
max_turns == 2

\* The damage below which a robot is active (active_robots, line 104).
DestroyedAt == 100

\* ------------------------------------------------------------------ inputs
\* Python's None ('then' before the first move).
None == -1
\* Headings a controller passes to set_heading, in quarter turns.
HeadingInputs == {0, 2}
\* Speeds a controller passes to set_speed: below 0 and above max_speed.
SpeedInputs == {-1, max_speed + 1}
\* The starting points of the games taken up in a radar_updated handler:
\* one row of the arena.
AttackCoords == {<<0, 1>>, <<1, 1>>, <<2, 1>>}
\* The starting points off the borders, and the speeds of robots starting
\* there: at rest, or reaching a border within one tick.
InnerCoords == (1 .. (x_max - 1)) \X (1 .. (y_max - 1))
CrossSpeeds == {0, max_speed}
\* Every value of (random.randrange(0, x_max), random.randrange(0, y_max)).
RandomCoords == (0 .. (x_max - 1)) \X (0 .. (y_max - 1))
\* The starting points of the games played from __init__ on: one on the
\* left border and one next to it.
StartCoords == {<<0, 1>>, <<1, 1>>}
\* The starting point of the games checked for termination: all robots on
\* one point, where an attack may hit or miss.
FairStartCoords == {<<1, 1>>}
\* The handlers from which a controller calls attack.
AttackingEvents == {"started", "radar_updated"}
\* The speeds and headings robots have when a move is taken up on its own.
MoveSpeeds == {0, 1, max_speed}
MoveHeadings == 0 .. 3
\* The robots whose controllers issue commands from their handlers; the
\* controllers of the others only take their notifications.
Commanders == {0, 1}

VARIABLES
    robots,      \* self._robots: id -> record
    turn,        \* self._turn
    pc,          \* where run() stands
    cursor,      \* how many robots the running for loop has handled
    loopRobots,  \* run_robots' local `robots` (line 233), as ids
    stack,       \* the call stack below run_robots: handlers and attack() calls
    now,         \* the last reading of loop.time()
    line_segs,   \* _move_robots' local line_segs at its last run
    winners      \* the result of run()

vars == <<robots, turn, pc, cursor, loopRobots, stack, now, line_segs, winners>>

\* ---------------------------------------------------------------- helpers
Min(a, b) == IF a <= b THEN a ELSE b
Abs(a) == IF a < 0 THEN -a ELSE a

\* math.cos and math.sin of a heading given in quarter turns.
Cos(h) == CASE h % 4 = 0 -> 1 [] h % 4 = 1 -> 0 [] h % 4 = 2 -> -1 [] OTHER -> 0
Sin(h) == CASE h % 4 = 0 -> 0 [] h % 4 = 1 -> 1 [] h % 4 = 2 -> 0 [] OTHER -> -1

Cross(u, v) == u[1] * v[2] - u[2] * v[1]
Dot(u, v) == u[1] * v[1] + u[2] * v[2]
Sub(p, q) == <<p[1] - q[1], p[2] - q[2]>>

\* ------------------------------------------------------------ rrobot.maths
\* "No intersection" of seg_intersect (Option<Point>).
NoPoint == <<>>

\* seg_intersect(a1, a2, b1, b2): the parametric intersection of the segments
\* a1-a2 and b1-b2, returned only if both parameters lie in [0, 1]; parallel
\* and collinear segments (a zero denominator) do not intersect.
seg_intersect(a1, a2, b1, b2) ==
    LET r == Sub(a2, a1)
        s == Sub(b2, b1)
        den == Cross(r, s)
        tn == Cross(Sub(b1, a1), s)
        un == Cross(Sub(b1, a1), r)
        In01(n) == IF den > 0 THEN 0 <= n /\ n <= den ELSE den <= n /\ n <= 0
    IN  IF den = 0 THEN NoPoint
        ELSE IF In01(tn) /\ In01(un)
             THEN <<a1[1] + (tn * r[1]) \div den, a1[2] + (tn * r[2]) \div den>>
             ELSE NoPoint

\* is_in_angle(origin, heading, coneWidth, point) for a point other than the
\* origin: the direction of the point is within half the cone width of the
\* heading (inclusive).
is_in_angle(origin, heading, point) ==
    LET v == Sub(point, origin)
        h == <<Cos(heading), Sin(heading)>>
    IN  /\ Dot(v, h) > 0
        /\ Abs(Cross(v, h)) * attack_tan_den <= Dot(v, h) * attack_tan_num

\* The answers is_in_angle can give: spec.md does not say what the direction
\* from a point to itself is, so for point = origin both answers are possible.
InAngleOutcomes(origin, heading, point) ==
    IF origin = point THEN BOOLEAN ELSE {is_in_angle(origin, heading, point)}

\* get_inverse_square(a, b, peak) as the fraction num/den: peak at distance
\* 0, else peak / distance^2.
get_inverse_square(a, b, peak) ==
    LET v == Sub(b, a)
        d2 == Dot(v, v)
    IN  IF d2 = 0 THEN [num |-> peak, den |-> 1] ELSE [num |-> peak, den |-> d2]

\* ------------------------------------------------------------- Game state
RECURSIVE ActiveFrom(_, _)
ActiveFrom(rs, id) ==
    IF id \notin DOMAIN rs THEN <<>>
    ELSE IF rs[id].damage < DestroyedAt
         THEN <<id>> \o ActiveFrom(rs, id + 1)
         ELSE ActiveFrom(rs, id + 1)

\* active_robots(): the robots with damage < 100, in creation order.
active_robots(rs) == ActiveFrom(rs, 0)

Range(s) == {s[j] : j \in DOMAIN s}

\* set_speed: mps = min(mps, settings['max_speed'])
set_speed(rs, id, mps) == [rs EXCEPT ![id].speed = Min(mps, max_speed)]

\* set_heading
set_heading(rs, id, rads) == [rs EXCEPT ![id].heading = rads]

\* Lines 86-92 without the falloff: every hit does attack_damage.
attack_damage_flat(attacker, target) == attack_damage

\* int(min(attack_damage, get_inverse_square(...))), or attack_damage when
\* attacker and target share their coordinates (lines 86-92).
attack_damage_of(attacker, target) ==
    IF attacker.coords = target.coords THEN attack_damage
    ELSE LET q == get_inverse_square(attacker.coords, target.coords, attack_damage)
         IN  IF attack_damage * q.den <= q.num THEN attack_damage
             ELSE q.num \div q.den

\* Line 97 with `-=` for `+=`: the damage is taken off.
sub_damage(old, damage) == old - damage

\* Line 97: target['damage'] += damage
add_damage(old, damage) == old + damage

\* ------------------------------------------------------------- movement
\* The keys of line_segs: the four borders (Python strings) and the robot
\* ids (Python ints).
Border(name) == <<"border", name>>
RobotKey(id) == <<"robot", id>>
IsStr(key) == key[1] = "border"
BorderNames == {"left", "top", "right", "bottom"}
NameLen == [left |-> 4, top |-> 3, right |-> 5, bottom |-> 6]

\* Lines 126-127 with cos and sin swapped.
get_line_seg_swapped(data, t) ==
    LET t_d == t - data.then
        dist == data.speed * t_d
        x_d == Sin(data.heading) * dist
        y_d == Cos(data.heading) * dist
    IN  <<data.coords, <<data.coords[1] + x_d, data.coords[2] + y_d>>>>

\* _get_line_seg(data, now)
get_line_seg(data, t) ==
    LET t_d == t - data.then
        dist == data.speed * t_d
        x_d == Cos(data.heading) * dist
        y_d == Sin(data.heading) * dist
    IN  <<data.coords, <<data.coords[1] + x_d, data.coords[2] + y_d>>>>

\* line_segs as _move_robots builds it (lines 181-188).
LineSegs(rs, ids, t) ==
    [key \in {Border(b) : b \in BorderNames} \cup {RobotKey(id) : id \in Range(ids)} |->
        IF IsStr(key)
        THEN CASE key[2] = "left" -> <<<<0, 0>>, <<0, y_max>>>>
               [] key[2] = "top" -> <<<<0, y_max>>, <<x_max, y_max>>>>
               [] key[2] = "right" -> <<<<x_max, y_max>>, <<x_max, 0>>>>
               [] OTHER -> <<<<x_max, 0>>, <<0, 0>>>>
        ELSE get_line_seg(rs[key[2]], t)]

\* _get_intersections(line_segs): for every key a the keys b # a whose
\* segment intersects a's, with the point; keys with no intersection are
\* absent (a defaultdict).
Intersection(segs, a, b) == seg_intersect(segs[a][1], segs[a][2], segs[b][1], segs[b][2])

\* Lines 166-171 skipping the borders as b_id: only robots are recorded.
IntersectionsOfRobots(segs, a) ==
    [b \in {b \in DOMAIN segs \ {a} : ~IsStr(b) /\ Intersection(segs, a, b) # NoPoint} |->
        Intersection(segs, a, b)]

IntersectionsOf(segs, a) ==
    [b \in {b \in DOMAIN segs \ {a} : Intersection(segs, a, b) # NoPoint} |->
        Intersection(segs, a, b)]

get_intersections(segs) ==
    [a \in {a \in DOMAIN segs : DOMAIN IntersectionsOf(segs, a) # {}} |->
        IntersectionsOf(segs, a)]

\* `for (a_id, b_id), coords in bumps.items()` (lines 191 and 205) unpacks
\* each KEY of bumps into two names: a string unpacks into its characters,
\* so only a string of length 2 would do, and an int does not unpack at all.
KeyUnpacks(key) == IsStr(key) /\ NameLen[key[2]] = 2

\* The loop of line 191 raises (ValueError or TypeError) at the first key.
BumpsLoopRaises(bumps) == \E key \in DOMAIN bumps : ~KeyUnpacks(key)

\* ------------------------------------------------------------- call stack
HandlerFrame(r, event) ==
    [kind |-> "handler", robot |-> r, event |-> event, targets |-> <<>>, idx |-> 0]
AttackFrame(r, targets) ==
    [kind |-> "attack", robot |-> r, event |-> "", targets |-> targets, idx |-> 1]

Top == stack[Len(stack)]
Pop == SubSeq(stack, 1, Len(stack) - 1)
InHandler == stack # <<>> /\ Top.kind = "handler"
Commanding == InHandler /\ Top.robot \in Commanders

\* ------------------------------------------------------------------- Init
\* Game.__init__ (lines 25-37) and the head of run_robots (line 225).
\* A game of at most `most` robot classes whose random starting points are
\* drawn from `starts`.
InitOf(most, starts) ==
    /\ \E n \in 0 .. most :
         robots \in [0 .. (n - 1) ->
                       [coords : starts, speed : {0}, damage : {0},
                        heading : {0}, then : {None}]]
    /\ turn = 0
    /\ pc = "start"
    /\ cursor = 0
    /\ loopRobots = <<>>
    /\ stack = <<>>
    /\ now = 0
    /\ line_segs = <<>>
    /\ winners = <<>>

Init == InitOf(MaxRobots, StartCoords)

\* --------------------------------------------------------------- run_robots
\* Lines 226-230: the next robot is sent "started".
Started ==
    /\ pc = "start" /\ stack = <<>> /\ cursor \in DOMAIN robots
    /\ stack' = <<HandlerFrame(cursor, "started")>>
    /\ UNCHANGED <<robots, turn, pc, cursor, loopRobots, now, line_segs, winners>>

\* Line 233: robots = self.active_robots(), once, before the loop.
LoopInit ==
    /\ pc = "start" /\ stack = <<>> /\ cursor \notin DOMAIN robots
    /\ loopRobots' = active_robots(robots)
    /\ pc' = "while"
    /\ UNCHANGED <<robots, turn, cursor, stack, now, line_segs, winners>>

\* Line 234 with `> 0` for `> 1`: a loop that goes on while any robot is listed.
loop_condition_any(rs, t) == Len(rs) > 0 /\ t < max_turns

\* Line 234: while len(robots) > 1 and self._turn < settings['max_turns']
loop_condition(rs, t) == Len(rs) > 1 /\ t < max_turns

\* Line 235 left out: a turn that is not counted.
next_turn_same(t) == t

\* Line 235: self._turn += 1
next_turn(t) == t + 1

\* Lines 234-235 and, when the loop ends, run()'s lines 247-249.
While ==
    /\ pc = "while"
    /\ IF loop_condition(loopRobots, turn)
       THEN /\ turn' = next_turn(turn)
            /\ pc' = "radar"
            /\ cursor' = 0
            /\ UNCHANGED winners
       ELSE /\ pc' = "done"
            /\ winners' = [j \in DOMAIN active_robots(robots) |->
                             [id |-> active_robots(robots)[j],
                              damage |-> robots[active_robots(robots)[j]].damage]]
            /\ UNCHANGED <<turn, cursor>>
    /\ UNCHANGED <<robots, loopRobots, stack, now, line_segs>>

\* Line 135 over self._robots for `robots`: a broadcast to every robot.
radar_robots_all(rs, list) == [j \in 1 .. Cardinality(DOMAIN rs) |-> j - 1]

\* Lines 239 and 135: _update_radar(robots) notifies the robots of the list
\* it is given, the one of line 233.
radar_robots(rs, list) == list

\* _update_radar (lines 135-137): the next robot of `robots` is notified.
UpdateRadar ==
    /\ pc = "radar" /\ stack = <<>> /\ cursor < Len(loopRobots)
    /\ stack' = <<HandlerFrame(radar_robots(robots, loopRobots)[cursor + 1], "radar_updated")>>
    /\ cursor' = cursor + 1
    /\ UNCHANGED <<robots, turn, pc, loopRobots, now, line_segs, winners>>

\* _move_robots (lines 176-220) and the sleep of line 241.  With bumps
\* empty no move is clipped and nobody is bumped; otherwise the loop of line
\* 191 raises before any position is written.
MoveRobots ==
    /\ pc = "radar" /\ stack = <<>> /\ cursor = Len(loopRobots)
    /\ \E t_d \in 1 .. MaxElapsed :
         LET t == now + t_d
             segs == LineSegs(robots, loopRobots, t)
             bumps == get_intersections(segs)
         IN  /\ now' = t
             /\ line_segs' = segs
             /\ IF BumpsLoopRaises(bumps)
                THEN /\ pc' = "raised"
                     /\ UNCHANGED robots
                ELSE /\ pc' = "while"
                     /\ robots' = [id \in DOMAIN robots |->
                          IF id \in Range(loopRobots)
                          THEN [robots[id] EXCEPT !.coords = segs[RobotKey(id)][2],
                                                  !.then = t]
                          ELSE robots[id]]
    /\ UNCHANGED <<turn, cursor, loopRobots, stack, winners>>

\* ---------------------------------------------------------- the controllers
\* A controller handling a notification calls set_heading for its robot.
SetHeading ==
    /\ Commanding
    /\ \E rads \in HeadingInputs : robots' = set_heading(robots, Top.robot, rads)
    /\ UNCHANGED <<turn, pc, cursor, loopRobots, stack, now, line_segs, winners>>

\* ... calls set_speed for its robot.
SetSpeed ==
    /\ Commanding
    /\ \E mps \in SpeedInputs : robots' = set_speed(robots, Top.robot, mps)
    /\ UNCHANGED <<turn, pc, cursor, loopRobots, stack, now, line_segs, winners>>

\* attack()'s loop (lines 80-98) over `targets`, the list taken at line 80,
\* from its idx-th element up to the next target that is damaged or to the
\* end of the list: the set of ways it can go, each the index to go on from
\* and the damaged target (None at the end of the list).
RECURSIVE AttackLoop(_, _, _, _)
AttackLoop(rs, id, targets, idx) ==
    IF idx > Len(targets) THEN {[idx |-> idx, target |-> None]}
    ELSE LET attacker == rs[id]
             target == rs[targets[idx]]
             in_angle == InAngleOutcomes(attacker.coords, attacker.heading, target.coords)
             damage == attack_damage_of(attacker, target)
         IN  (IF TRUE \in in_angle /\ damage # 0
              THEN {[idx |-> idx + 1, target |-> targets[idx]]} ELSE {})
             \cup
             (IF FALSE \in in_angle \/ damage = 0
              THEN AttackLoop(rs, id, targets, idx + 1) ELSE {})

\* attack(Top.robot), called by the handler on top of the stack.
AttackCall ==
    LET id == Top.robot
        targets == active_robots(robots)
    IN  \E way \in AttackLoop(robots, id, targets, 1) :
          IF way.target = None
          THEN UNCHANGED <<robots, stack>>
          ELSE /\ robots' = [robots EXCEPT ![way.target].damage =
                                add_damage(@, attack_damage_of(robots[id], robots[way.target]))]
               /\ stack' = stack \o <<[AttackFrame(id, targets) EXCEPT !.idx = way.idx],
                                      HandlerFrame(way.target, "attacked")>>

\* ... calls attack for its robot.
Attack ==
    /\ Commanding /\ Top.event \in AttackingEvents
    /\ AttackCall
    /\ UNCHANGED <<turn, pc, cursor, loopRobots, now, line_segs, winners>>

\* A controller handling "attacked" calls attack for its robot: an attack
\* within an attack.
AttackNested ==
    /\ Commanding /\ Top.event = "attacked" /\ Len(stack) < MaxStack
    /\ AttackCall
    /\ UNCHANGED <<turn, pc, cursor, loopRobots, now, line_segs, winners>>

\* An "attacked" handler returns into attack(), whose loop goes on.
AttackedReturn ==
    /\ InHandler /\ Top.event = "attacked"
    /\ LET frame == stack[Len(stack) - 1]
           below == SubSeq(stack, 1, Len(stack) - 2)
       IN  \E way \in AttackLoop(robots, frame.robot, frame.targets, frame.idx) :
             IF way.target = None
             THEN /\ stack' = below
                  /\ UNCHANGED robots
             ELSE /\ robots' = [robots EXCEPT ![way.target].damage =
                                   add_damage(@, attack_damage_of(robots[frame.robot],
                                                                  robots[way.target]))]
                  /\ stack' = below \o <<[frame EXCEPT !.idx = way.idx],
                                         HandlerFrame(way.target, "attacked")>>
    /\ UNCHANGED <<turn, pc, cursor, loopRobots, now, line_segs, winners>>

\* A "started" handler returns into run_robots: line 231 sets `then`.
StartedReturn ==
    /\ InHandler /\ Top.event = "started"
    /\ stack' = Pop
    /\ robots' = [robots EXCEPT ![Top.robot].then = now]
    /\ cursor' = cursor + 1
    /\ UNCHANGED <<turn, pc, loopRobots, now, line_segs, winners>>

\* A "radar_updated" handler returns into _update_radar.
RadarReturn ==
    /\ InHandler /\ Top.event = "radar_updated"
    /\ stack' = Pop
    /\ UNCHANGED <<robots, turn, pc, cursor, loopRobots, now, line_segs, winners>>

Next ==
    \/ Started
    \/ LoopInit
    \/ While
    \/ UpdateRadar
    \/ MoveRobots
    \/ SetHeading
    \/ SetSpeed
    \/ Attack
    \/ AttackedReturn
    \/ StartedReturn
    \/ RadarReturn

Spec == Init /\ [][Next]_vars

\* A game taken up right before _move_robots of its first turn: every robot
\* has been sent "started" and "radar_updated", and the controllers have set
\* headings and speeds.
InitMove ==
    /\ \E n \in 2 .. MaxMovers :
         /\ robots \in [0 .. (n - 1) ->
                         [coords : RandomCoords, speed : MoveSpeeds, damage : {0},
                          heading : MoveHeadings, then : {0}]]
         /\ loopRobots = [j \in 1 .. n |-> j - 1]
         /\ cursor = n
    /\ turn = 1
    /\ pc = "radar"
    /\ stack = <<>>
    /\ now = 0
    /\ line_segs = <<>>
    /\ winners = <<>>

SpecMove == InitMove /\ [][MoveRobots]_vars

\* A game taken up right before _move_robots of its first turn, with every
\* robot off the borders.
InitCross ==
    /\ \E n \in 2 .. MaxCrossers :
         /\ robots \in [0 .. (n - 1) ->
                         [coords : InnerCoords, speed : CrossSpeeds, damage : {0},
                          heading : MoveHeadings, then : {0}]]
         /\ loopRobots = [j \in 1 .. n |-> j - 1]
         /\ cursor = n
    /\ turn = 1
    /\ pc = "radar"
    /\ stack = <<>>
    /\ now = 0
    /\ line_segs = <<>>
    /\ winners = <<>>

SpecCross == InitCross /\ [][MoveRobots]_vars

\* A game taken up at the start of its first turn's radar broadcast: every
\* robot has been sent "started", and no controller has issued a command.
InitTurn ==
    /\ \E n \in 2 .. MaxMovers :
         /\ robots \in [0 .. (n - 1) ->
                         [coords : StartCoords, speed : {0}, damage : {0},
                          heading : {0}, then : {0}]]
         /\ loopRobots = [j \in 1 .. n |-> j - 1]
    /\ cursor = 0
    /\ turn = 1
    /\ pc = "radar"
    /\ stack = <<>>
    /\ now = 0
    /\ line_segs = <<>>
    /\ winners = <<>>

SpecTurn ==
    InitTurn /\ [][UpdateRadar \/ SetHeading \/ SetSpeed \/ RadarReturn \/ MoveRobots]_vars

\* A game taken up in the first radar_updated handler of its first turn:
\* the controllers have set headings in their started handlers.
InitAttack ==
    /\ \E n \in 2 .. MaxAttackers :
         /\ robots \in [0 .. (n - 1) ->
                         [coords : AttackCoords, speed : {0}, damage : {0},
                          heading : HeadingInputs, then : {0}]]
         /\ loopRobots = [j \in 1 .. n |-> j - 1]
    /\ cursor = 1
    /\ turn = 1
    /\ pc = "radar"
    /\ stack = <<HandlerFrame(0, "radar_updated")>>
    /\ now = 0
    /\ line_segs = <<>>
    /\ winners = <<>>

\* The attacks of controllers that do not attack when attacked ...
SpecAttack == InitAttack /\ [][Attack \/ AttackedReturn]_vars

\* ... and of controllers that do.
SpecNested == InitAttack /\ [][Attack \/ AttackNested \/ AttackedReturn]_vars

\* The steps of run() itself: run_robots going on, and a handler returning.
RunSteps ==
    \/ Started \/ LoopInit \/ While \/ UpdateRadar \/ MoveRobots
    \/ StartedReturn \/ RadarReturn \/ AttackedReturn

\* The scheduling of run(): the code is sequential, so run_robots goes on
\* whenever it can, and every handler returns (the controllers are
\* synchronous and terminating).
InitFair == InitOf(MaxFairRobots, FairStartCoords)
FairSpec == InitFair /\ [][Next]_vars /\ WF_vars(RunSteps)

\* ------------------------------------------------------------------ claims
Active(id) == robots[id].damage < DestroyedAt
NumActive == Len(active_robots(robots))

\* C1: every robot's damage, active or not, is an integer in 0..100.
DamageInRange == \A id \in DOMAIN robots : robots[id].damage \in 0 .. 100

\* C2: every robot's speed is in [0, max_speed], whatever set_speed is given.
SpeedInRange ==
    \A id \in DOMAIN robots : 0 <= robots[id].speed /\ robots[id].speed <= max_speed

NoAbort == pc # "raised"

Moved == line_segs # <<>>
bumps == get_intersections(line_segs)
Candidate(id) == line_segs[RobotKey(id)]
MovedRobots == {id \in DOMAIN robots : RobotKey(id) \in DOMAIN line_segs}

\* The points strictly inside the arena, on no border.
Interior(p) == 0 < p[1] /\ p[1] < x_max /\ 0 < p[2] /\ p[2] < y_max
StartsInside(id) == Interior(Candidate(id)[1])

\* a and b start inside the arena and move along one row toward each other,
\* far enough to meet.
HeadOn(a, b) ==
    LET sa == Candidate(a)
        sb == Candidate(b)
    IN  /\ StartsInside(a) /\ StartsInside(b)
        /\ sa[1][2] = sb[1][2] /\ sa[2][2] = sa[1][2] /\ sb[2][2] = sb[1][2]
        /\ sa[1][1] < sb[1][1]
        /\ sa[2][1] > sa[1][1] /\ sb[2][1] < sb[1][1]
        /\ sa[2][1] >= sb[2][1]

\* C7: two robots on a collision course both end the turn with speed 0 and
\* strictly between their two starting points.
CollisionCourseStopped ==
    Moved =>
      \A a, b \in MovedRobots :
        HeadOn(a, b) =>
          /\ robots[a].speed = 0 /\ robots[b].speed = 0
          /\ \A id \in {a, b} :
               /\ robots[id].coords[2] = Candidate(a)[1][2]
               /\ Candidate(a)[1][1] < robots[id].coords[1]
               /\ robots[id].coords[1] < Candidate(b)[1][1]

\* The move of id, started inside the arena, is clipped: it meets another
\* segment before its end.
Clipped(id) ==
    /\ StartsInside(id)
    /\ RobotKey(id) \in DOMAIN bumps
    /\ \E b \in DOMAIN bumps[RobotKey(id)] : bumps[RobotKey(id)][b] # Candidate(id)[2]

\* id starts inside the arena and moves along its row to x = 0 or beyond.
ReachesLeft(id) ==
    /\ StartsInside(id) /\ Candidate(id)[2][1] <= 0
    /\ Candidate(id)[2][2] = Candidate(id)[1][2]

\* C8: a robot whose move is clipped has speed 0 after the move, and a robot
\* that moves to the x = 0 wall ends at x = 0 exactly, with speed 0.
ClippedRobotStopped ==
    Moved =>
      \A id \in MovedRobots :
        /\ Clipped(id) => robots[id].speed = 0
        /\ ReachesLeft(id) =>
             robots[id].coords = <<0, Candidate(id)[1][2]>> /\ robots[id].speed = 0

InArena(p) == 0 <= p[1] /\ p[1] <= x_max /\ 0 <= p[2] /\ p[2] <= y_max
OnBoundary(p) == InArena(p) /\ (p[1] \in {0, x_max} \/ p[2] \in {0, y_max})

\* C9: every position is inside the arena or on its boundary, and a move
\* (here: one started inside the arena) whose candidate endpoint lies outside
\* the arena is committed at a point of the boundary.
MoveEndsInArena ==
    /\ \A id \in DOMAIN robots : InArena(robots[id].coords)
    /\ Moved =>
         \A id \in MovedRobots :
           (StartsInside(id) /\ ~InArena(Candidate(id)[2]))
              => OnBoundary(robots[id].coords)

Dist2(p, q) == Dot(Sub(p, q), Sub(p, q))

\* C10: a robot whose candidate segment (here: one started inside the arena)
\* intersects several other segments, at more than one point, is committed
\* at the intersection nearest to its start.
NearestIntersectionCommitted ==
    Moved =>
      \A id \in MovedRobots :
        (/\ StartsInside(id)
         /\ RobotKey(id) \in DOMAIN bumps
         /\ Cardinality({bumps[RobotKey(id)][b] : b \in DOMAIN bumps[RobotKey(id)]}) > 1) =>
          \E b \in DOMAIN bumps[RobotKey(id)] :
            /\ robots[id].coords = bumps[RobotKey(id)][b]
            /\ \A c \in DOMAIN bumps[RobotKey(id)] :
                 Dist2(Candidate(id)[1], bumps[RobotKey(id)][b])
                   <= Dist2(Candidate(id)[1], bumps[RobotKey(id)][c])

\* ------------------------------------------------------- claims C11 - C20
\* The robots with damage < 100.
Survivors == {id \in DOMAIN robots : robots[id].damage < DestroyedAt}

\* The result lists the survivors, each once and with its damage, in the
\* order the robots were constructed.
ResultIsSurvivors ==
    /\ Len(winners) = Cardinality(Survivors)
    /\ \A j \in DOMAIN winners :
         /\ winners[j].id \in Survivors
         /\ winners[j].damage = robots[winners[j].id].damage
         /\ \A i \in DOMAIN winners : i < j => winners[i].id < winners[j].id

\* run() is over: with its result, or by an exception.
RunOver == pc \in {"done", "raised"}

SingleRobotWins ==
    Cardinality(DOMAIN robots) = 1 =>
      /\ turn = 0 /\ pc # "radar" /\ ~Moved
      /\ \A j \in DOMAIN stack : stack[j].event # "radar_updated"
      /\ RunOver => (pc = "done" /\ winners = <<[id |-> 0, damage |-> 0]>>)

\* A radar_updated notification is delivered by this step.
RadarDelivered == stack = <<>> /\ stack' # <<>> /\ stack'[1].event = "radar_updated"

\* A controller handling radar_updated changes its robot by this step.
RadarCommand == InHandler /\ stack[1].event = "radar_updated" /\ robots' # robots

\* _move_robots reads the clock and computes the moves by this step.
MoveComputed == now' # now

\* [position, position + speed * elapsed * (cos heading, sin heading)]
CandidateOf(data, elapsed) ==
    <<data.coords,
      <<data.coords[1] + data.speed * elapsed * Cos(data.heading),
        data.coords[2] + data.speed * elapsed * Sin(data.heading)>>>>

\* C13: in a turn (pc = "radar" until its movement) the radar broadcast and
\* the commands of the radar_updated handlers come before the movement, the
\* movement comes when every robot of the turn has been notified and every
\* handler has returned, and each candidate segment is computed from the
\* position, speed and heading stored at that moment; _get_line_seg gives
\* what its doctest says.
MoveUsesRadarCommands ==
    /\ get_line_seg([coords |-> <<2, 2>>, then |-> 1, speed |-> 5, heading |-> 0], 2)
          = <<<<2, 2>>, <<7, 2>>>>
    /\ [][/\ (RadarDelivered \/ RadarCommand) => (pc = "radar" /\ pc' = "radar")
          /\ MoveComputed =>
               /\ pc = "radar" /\ pc' # "radar"
               /\ stack = <<>> /\ cursor = Len(loopRobots)
               /\ \A id \in Range(loopRobots) :
                    line_segs'[RobotKey(id)] = CandidateOf(robots[id], now' - robots[id].then)]_vars

\* C13's case: a robot that was at rest with heading 0 when the broadcast
\* began has moved by the heading and speed its controller set on
\* radar_updated.
MoveUsesRadarCommandsWitness ==
    /\ Moved
    /\ \E id \in MovedRobots :
         /\ robots[id].heading = 2 /\ robots[id].speed = max_speed
         /\ Candidate(id) = <<robots[id].coords,
                              <<robots[id].coords[1] - max_speed * (now - robots[id].then),
                                robots[id].coords[2]>>>>
         /\ Candidate(id)[2] # Candidate(id)[1]

\* The peak at the same position, else min(peak, peak / distance^2)
\* truncated toward zero: the largest integer n <= peak with
\* n * distance^2 <= peak.
ExpectedDamage(a, t) ==
    IF a.coords = t.coords THEN attack_damage
    ELSE CHOOSE n \in 0 .. attack_damage :
           /\ n * Dist2(a.coords, t.coords) <= attack_damage
           /\ (n = attack_damage \/ (n + 1) * Dist2(a.coords, t.coords) > attack_damage)

\* t may be found inside a's cone, or outside of it.
InCone(a, t) == TRUE \in InAngleOutcomes(a.coords, a.heading, t.coords)
OutOfCone(a, t) == FALSE \in InAngleOutcomes(a.coords, a.heading, t.coords)

\* The attack of a on t does damage, or passes t by.
Hit(a, t) == InCone(a, t) /\ ExpectedDamage(a, t) > 0
Passed(a, t) == OutOfCone(a, t) \/ ExpectedDamage(a, t) = 0

\* By this step the attack of `attacker` passes targets[from .. k - 1] by
\* and hits targets[k]: its damage grows by the expected damage, nothing
\* else changes, and the target's attacked handler, `handler`, is running.
HitStep(attacker, targets, from, k, handler) ==
    /\ k \in from .. Len(targets)
    /\ \A j \in from .. (k - 1) : Passed(robots[attacker], robots[targets[j]])
    /\ Hit(robots[attacker], robots[targets[k]])
    /\ handler = HandlerFrame(targets[k], "attacked")
    /\ robots' = [robots EXCEPT ![targets[k]].damage =
                     @ + ExpectedDamage(robots[attacker], robots[targets[k]])]

NoSelfTarget ==
    \A j \in DOMAIN stack :
       (j > 1 /\ stack[j].event = "attacked" /\ stack[j - 1].kind = "attack")
          => stack[j].robot # stack[j - 1].robot

\* C17: no step lowers a robot's damage, and a robot with damage >= 100
\* keeps a damage >= 100.
DamageNeverDecreases ==
    [][\A id \in DOMAIN robots :
          /\ robots'[id].damage >= robots[id].damage
          /\ robots[id].damage >= DestroyedAt => robots'[id].damage >= DestroyedAt]_vars

\* C17's case: a turn's moves have been computed with a robot destroyed
\* and another one damaged but active.
DamageNeverDecreasesWitness ==
    /\ Moved
    /\ \E id \in DOMAIN robots : robots[id].damage >= DestroyedAt
    /\ \E id \in DOMAIN robots : 0 < robots[id].damage /\ robots[id].damage < DestroyedAt

\* C18: damage is only ever added to a robot that is active when it is
\* added, whether or not attacks nest.
DamageOnlyToActive ==
    [][\A id \in DOMAIN robots :
          robots'[id].damage # robots[id].damage => robots[id].damage < DestroyedAt]_vars

\* The positions a move of id can be committed at: the end of its
\* candidate segment, or a point where the segment meets another one.
Endpoints(id) ==
    {Candidate(id)[2]} \cup
    (IF RobotKey(id) \in DOMAIN bumps
     THEN {bumps[RobotKey(id)][b] : b \in DOMAIN bumps[RobotKey(id)]} ELSE {})

\* Every robot moved in the turn has its new position and timestamp.
Committed == \A id \in MovedRobots : robots[id].then = now /\ robots[id].coords \in Endpoints(id)

DoctestSegs ==
    (Border("foo") :> <<<<1, 1>>, <<5, 5>>>>) @@ (Border("bar") :> <<<<1, 3>>, <<3, 1>>>>)
       @@ (Border("baz") :> <<<<2, 4>>, <<4, 2>>>>)
DoctestResult ==
    (Border("foo") :> ((Border("bar") :> <<2, 2>>) @@ (Border("baz") :> <<3, 3>>)))
       @@ (Border("bar") :> (Border("foo") :> <<2, 2>>))
       @@ (Border("baz") :> (Border("foo") :> <<3, 3>>))

\* The segments a and b meet.
Meet(a, b) ==
    seg_intersect(line_segs[a][1], line_segs[a][2], line_segs[b][1], line_segs[b][2]) # NoPoint

====
